---- MODULE Spec2Model ----
(***************************************************************************)
(* Model of the chat orchestrator (ai_chat_util/llm/llm_client.py) and of  *)
(* the batch engine (ai_chat_util/batch/batch_client.py).                  *)
(*                                                                         *)
(* A client's History is the object the orchestrator calls                 *)
(* self.chat_history; the backend call _chat_completion_ sends the         *)
(* messages of the client's History and create() returns a client that     *)
(* holds the History it is given (LLMClient's abstract interface). The     *)
(* History the batch client reads back from a row's client                 *)
(* (llm_client.chat_request.chat_history) is that same History.            *)
(*                                                                         *)
(* The actions are the stretches of code between two suspension points     *)
(* (await) of the asyncio event loop. A behaviour is one turn of           *)
(* LLMClient.chat, or one run of LLMBatchClient (Spec). PreSpec runs the   *)
(* preprocessing of a with-context turn alone, on messages of text, image  *)
(* and file blocks and on wider split lengths and image limits.            *)
(*                                                                         *)
(* Strings are sequences of atoms: one atom per character, and one atom    *)
(* for a whole "[answer_part_i]" label.                                    *)
(***************************************************************************)
EXTENDS Integers, Sequences, FiniteSets, TLC

VARIABLES
    \* ---- one turn of LLMClient.chat ----
    chat_history,        \* self.chat_history.messages of the client the turn runs on
    chat_message_list,   \* the caller's message objects (argument of chat)
    request_context,     \* ChatRequestContext, or NoContext
    concurrency_limit,   \* LLMClient.concurrency_limit
    pc,                  \* position of the chat coroutine
    preprocessed_messages,
    task,                \* task[i]: state of asyncio task __run_one__(i-1, message)
    task_result,         \* task_result[i]: the tuple task i returned
    chat_responses,      \* the list handed to __postprocess_messages__
    loop_i,              \* position of the for loop of lines 473-480
    summary_history,     \* History of the client created for the summary call
    backend_calls,       \* log of the _chat_completion_ calls started, in start order
    result,              \* what chat returned, or the error it raised
    prior_history,       \* history: self.chat_history.messages when the turn began
    text_messages,       \* history: preprocessed_messages after line 446
    resolved_messages,   \* history: the messages the turn works on, as they were when it began
    out_of_order,        \* history: a task finished before one created earlier
    client,              \* which client the turn runs on: the 1st or the 2nd created
    \* ---- one run of LLMBatchClient ----
    entry,               \* which entry point was called
    chat_histories,      \* argument of run_batch_chat: one History per row
    concurrency,         \* argument of run_batch_chat
    row,                 \* row[i]: state of asyncio task _run_one(i-1, chat_history)
    row_history,         \* row_history[i]: History of the client of row i
    row_result,          \* row_result[i]: the tuple task i returned
    progress,            \* tqdm counter
    bpc,                 \* position of the run_batch_chat coroutine
    responses,           \* what run_batch_chat returned
    messages,            \* argument of run_simple_batch_chat
    response_messages,   \* what run_simple_batch_chat returned
    batch_error,         \* the error of the run: the first one a row's task raised
    table,               \* the table read from input_excel_path
    output_excel,        \* the output column written to output_excel_path
    \* ---- the content blocks a client builds ----
    llm_provider,        \* llm_config.llm_provider: the client class
    contents             \* the blocks built so far, each with the builder that made it

turn_vars == <<chat_history, chat_message_list, request_context, concurrency_limit, pc,
               preprocessed_messages, task, task_result, chat_responses, loop_i,
               summary_history, result, prior_history, text_messages,
               resolved_messages, client>>
batch_vars == <<entry, chat_histories, concurrency, row, row_history, row_result,
                progress, bpc, responses, messages, response_messages, batch_error,
                table, output_excel, llm_provider, contents>>
vars == <<turn_vars, batch_vars, backend_calls, out_of_order>>

-----------------------------------------------------------------------------
(* Bounds of the model *)

MaxRows == 3
MaxConcurrency == 2
MaxTextLen == 3
MaxImages == 2
MaxBlocks == 3
MaxSplitLength == 2
MaxImagesPerRequest == 2

\* concurrency_limit: int = 16
DefaultConcurrencyLimit == 16

-----------------------------------------------------------------------------
(* Strings *)

NL == "\n"
Whitespace == {" ", NL}

Min(a, b) == IF a <= b THEN a ELSE b

\* str.strip(): leading and trailing whitespace removed
RECURSIVE LStrip(_)
LStrip(s) == IF s # <<>> /\ Head(s) \in Whitespace THEN LStrip(Tail(s)) ELSE s
RECURSIVE RStrip(_)
RStrip(s) == IF s # <<>> /\ s[Len(s)] \in Whitespace
             THEN RStrip(SubSeq(s, 1, Len(s) - 1)) ELSE s
Strip(s) == RStrip(LStrip(s))

\* sep.join(list)
RECURSIVE Join(_, _)
Join(list, sep) ==
    IF list = <<>> THEN <<>>
    ELSE IF Len(list) = 1 THEN list[1]
    ELSE list[1] \o <<sep>> \o Join(Tail(list), sep)

\* concatenation of a sequence of sequences
RECURSIVE Flatten(_)
Flatten(ss) == IF ss = <<>> THEN <<>> ELSE Head(ss) \o Flatten(Tail(ss))

-----------------------------------------------------------------------------
(* Content model *)

user_role == "user"
assistant_role == "assistant"

\* create_text_content: {"type": "text", "text": text}
create_text_content(text) == [type |-> "text", text |-> text, id |-> 0]
\* an image block, as _create_image_content_ of the OpenAI client builds it
ImageContent(k) == [type |-> "image_url", text |-> <<>>, id |-> k]

\* a file block, as _create_pdf_content_ of the OpenAI client builds it
FileContent(k) == [type |-> "file", text |-> <<>>, id |-> k]

_is_text_content_(content) == content.type = "text"
_is_image_content_(content) == content.type = "image_url"

ChatMessage(role, content) == [role |-> role, content |-> content]

\* ChatHistory.add_message
add_message(history, message) == Append(history, message)

\* ChatHistory.get_last_role_messages: the most recent message of the role
LastRolePos(history, role) ==
    IF \E p \in 1..Len(history) : history[p].role = role
    THEN CHOOSE p \in 1..Len(history) :
             /\ history[p].role = role
             /\ \A q \in (p + 1)..Len(history) : history[q].role # role
    ELSE 0
get_last_role_messages(history, role) ==
    IF LastRolePos(history, role) = 0 THEN <<>>
    ELSE <<history[LastRolePos(history, role)]>>

\* ChatResponse; call is the position in backend_calls of the call that
\* produced it (0 for a response the program builds itself)
ChatResponse(output, input_tokens, output_tokens, call) ==
    [output |-> output, input_tokens |-> input_tokens,
     output_tokens |-> output_tokens, call |-> call]

\* ChatRequestContext
split_mode_name_none == "none"
split_mode_name_split == "split"
split_mode_name_split_and_summarize == "split_and_summarize"
NoContext == [split_mode |-> "no_context"]

ChatRequestContext(mode, length, images, template, summarize) ==
    [split_mode |-> mode, split_message_length |-> length,
     max_images_per_request |-> images, prompt_template_text |-> template,
     summarize_prompt_text |-> summarize]

-----------------------------------------------------------------------------
(* Preprocessing: __preprocess_text_message__, __preprocess_image_urls__ *)

\* chat_message.content.insert(0, prompt_template_content), for every message
__insert_prompt_template__(list, ctx) ==
    [k \in 1..Len(list) |->
        IF ctx.prompt_template_text # <<>>
        THEN [list[k] EXCEPT
                 !.content = <<create_text_content(ctx.prompt_template_text)>> \o @]
        ELSE list[k]]

\* all content blocks of the messages, in order
AllContents(list) == Flatten([k \in 1..Len(list) |-> list[k].content])
text_type_contents(list) == SelectSeq(AllContents(list), _is_text_content_)

\* non_text_contents keeping the image blocks only
non_text_contents_images_only(list) == SelectSeq(AllContents(list), _is_image_content_)

IsNonText(content) == _is_text_content_(content) = FALSE

\* non_text_contents of windows that carry the text alone
non_text_contents_left_out(list) == SubSeq(AllContents(list), 1, 0)

non_text_contents(list) == SelectSeq(AllContents(list), IsNonText)
combined_text(list) ==
    Join([k \in 1..Len(text_type_contents(list)) |-> text_type_contents(list)[k].text], NL)

\* SplitText keeping the full windows only: a last, shorter window is lost
SplitTextFullWindows(text, length) ==
    [k \in 1..(Len(text) \div length) |->
        SubSeq(text, (k - 1) * length + 1, k * length)]

\* text[i:i + length] for i in range(0, len(text), length)
SplitText(text, length) ==
    [k \in 1..((Len(text) + length - 1) \div length) |->
        SubSeq(text, (k - 1) * length + 1, Min(k * length, Len(text)))]

\* TextPreprocessRaises with the check made for split_and_summarize only
TextPreprocessRaisesWhenSummarizing(ctx) ==
    /\ ctx.split_mode = split_mode_name_split_and_summarize
    /\ ctx.prompt_template_text = <<>>

\* the ValueError of line 532
TextPreprocessRaises(ctx) ==
    /\ ctx.split_mode # split_mode_name_none
    /\ ctx.prompt_template_text = <<>>

\* TRUE when __preprocess_text_message__ returns the caller's own message
\* objects, with the template inserted in place
TextPreprocessInPlace(list, ctx) ==
    \/ ctx.split_mode = split_mode_name_none
    \/ ctx.split_message_length <= 0
    \/ Len(text_type_contents(list)) = 0

__preprocess_text_message__(list, ctx) ==
    IF TextPreprocessInPlace(list, ctx)
    THEN __insert_prompt_template__(list, ctx)
    ELSE [k \in 1..Len(SplitText(combined_text(list), ctx.split_message_length)) |->
            ChatMessage(user_role,
                <<create_text_content(
                      ctx.prompt_template_text \o <<NL>>
                      \o SplitText(combined_text(list), ctx.split_message_length)[k])>>
                \o non_text_contents(list))]

\* SplitImages with slices one image too long: image_url_contents[i:i + max_images + 1]
SplitImagesOverlapping(chat_message, max_images) ==
    LET image_url_contents == SelectSeq(chat_message.content, _is_image_content_)
        text_contents == SelectSeq(chat_message.content, _is_text_content_)
    IN  IF Len(image_url_contents) = 0
        THEN <<chat_message>>
        ELSE [k \in 1..((Len(image_url_contents) + max_images - 1) \div max_images) |->
                ChatMessage(chat_message.role,
                    text_contents
                    \o SubSeq(image_url_contents, (k - 1) * max_images + 1,
                              Min(k * max_images + 1, Len(image_url_contents))))]

\* SplitImages with the text blocks put on the first group only
SplitImagesTextOnce(chat_message, max_images) ==
    LET image_url_contents == SelectSeq(chat_message.content, _is_image_content_)
        text_contents == SelectSeq(chat_message.content, _is_text_content_)
    IN  IF Len(image_url_contents) = 0
        THEN <<chat_message>>
        ELSE [k \in 1..((Len(image_url_contents) + max_images - 1) \div max_images) |->
                ChatMessage(chat_message.role,
                    (IF k = 1 THEN text_contents ELSE <<>>)
                    \o SubSeq(image_url_contents, (k - 1) * max_images + 1,
                              Min(k * max_images, Len(image_url_contents))))]

\* the messages one message becomes in __preprocess_image_urls__ (lines 599-620)
SplitImages(chat_message, max_images) ==
    LET image_url_contents == SelectSeq(chat_message.content, _is_image_content_)
        text_contents == SelectSeq(chat_message.content, _is_text_content_)
    IN  IF Len(image_url_contents) = 0
        THEN <<chat_message>>
        ELSE [k \in 1..((Len(image_url_contents) + max_images - 1) \div max_images) |->
                ChatMessage(chat_message.role,
                    text_contents
                    \o SubSeq(image_url_contents, (k - 1) * max_images + 1,
                              Min(k * max_images, Len(image_url_contents))))]

\* __preprocess_image_urls__ without the test of lines 588-589
preprocess_image_urls_in_every_mode(list, ctx) ==
    IF ctx.max_images_per_request <= 0 THEN list
    ELSE Flatten([k \in 1..Len(list) |-> SplitImages(list[k], ctx.max_images_per_request)])

__preprocess_image_urls__(list, ctx) ==
    IF ctx.split_mode = split_mode_name_none THEN list
    ELSE IF ctx.max_images_per_request <= 0 THEN list
    ELSE Flatten([k \in 1..Len(list) |-> SplitImages(list[k], ctx.max_images_per_request)])

\* lines 445-447
Preprocess(list, ctx) ==
    __preprocess_image_urls__(__preprocess_text_message__(list, ctx), ctx)

-----------------------------------------------------------------------------
(* Merge: __postprocess_messages__ *)

\* f"[answer_part_{i+1}]", one atom
AnswerPartLabel(i) == "[answer_part_" \o ToString(i) \o "]"

\* result_text of lines 647-649
LabelledText(chat_response_list) ==
    Flatten([k \in 1..Len(chat_response_list) |->
                <<AnswerPartLabel(k), NL>> \o chat_response_list[k].output \o <<NL>>])

\* TRUE when __postprocess_messages__ returns without a backend call (lines 641-650)
PostprocessMerges(ctx) == ctx.split_mode # split_mode_name_split_and_summarize

MergedResponse(chat_response_list) ==
    IF Len(chat_response_list) = 1 THEN chat_response_list[1]
    ELSE ChatResponse(Strip(LabelledText(chat_response_list)), 0, 0, 0)

\* the ValueError of line 653
PostprocessRaises(ctx) ==
    /\ ctx.split_mode = split_mode_name_split_and_summarize
    /\ ctx.summarize_prompt_text = <<>>

\* summmarize_request_text of lines 655-657
SummarizeRequestText(chat_response_list, ctx) ==
    ctx.summarize_prompt_text \o <<NL>>
    \o Flatten([k \in 1..Len(chat_response_list) |->
                   chat_response_list[k].output \o <<NL>>])

\* responses.sort(key=lambda x: x[0]): stable insertion sort on the first component
RECURSIVE InsertByKey(_, _)
InsertByKey(sorted, t) ==
    IF sorted = <<>> THEN <<t>>
    ELSE IF t[1] < Head(sorted)[1] THEN <<t>> \o sorted
    ELSE <<Head(sorted)>> \o InsertByKey(Tail(sorted), t)
RECURSIVE SortByKey(_)
SortByKey(tuples) ==
    IF tuples = <<>> THEN <<>>
    ELSE InsertByKey(SortByKey(SubSeq(tuples, 1, Len(tuples) - 1)), tuples[Len(tuples)])

-----------------------------------------------------------------------------
(* The backend *)

\* the outputs a _chat_completion_ call may return
Outputs == {<<"A">>, <<"B", NL>>}

\* a started _chat_completion_ call: who made it and the messages it sends
BackendCall(kind, num, sent) == [kind |-> kind, num |-> num, messages |-> sent]

\* the ChatResponse the backend builds for call number c of the log, answering out
BackendResponse(out, c) == ChatResponse(out, Len(backend_calls[c].messages), Len(out), c)

\* position in backend_calls of the pending call of the given kind and number
CallOf(kind, num) ==
    CHOOSE c \in 1..Len(backend_calls) :
        /\ backend_calls[c].kind = kind
        /\ backend_calls[c].num = num
        /\ \A d \in (c + 1)..Len(backend_calls) :
               ~(backend_calls[d].kind = kind /\ backend_calls[d].num = num)

NoResponse == ChatResponse(<<>>, 0, 0, 0)
NoResult == [status |-> "none", error |-> "", response |-> NoResponse]
Returned(response) == [status |-> "returned", error |-> "", response |-> response]
Raised(error) == [status |-> "raised", error |-> error, response |-> NoResponse]

-----------------------------------------------------------------------------
(* Inputs of a turn *)

TextOfLen(n) == [k \in 1..n |-> ToString(k)]
Images(n) == [k \in 1..n |-> ImageContent(k)]
TextMessage(n) == ChatMessage(user_role, <<create_text_content(TextOfLen(n))>>)
ImageMessage(n, k) ==
    ChatMessage(user_role, <<create_text_content(TextOfLen(n))>> \o Images(k))
AssistantMessage(text) == ChatMessage(assistant_role, <<create_text_content(text)>>)

InputMessageLists ==
    { <<>>,
      <<TextMessage(0)>>,
      <<TextMessage(1)>>,
      <<TextMessage(MaxTextLen)>>,
      <<ImageMessage(1, MaxImages)>>,
      <<TextMessage(1), TextMessage(1)>> }

PriorHistories ==
    { <<>>, <<TextMessage(1), AssistantMessage(<<"A">>)>> }

\* Histories of a client whose turn is called without messages
FallbackHistories ==
    { <<AssistantMessage(<<"A">>)>>,
      <<TextMessage(1), AssistantMessage(<<"A">>), TextMessage(MaxTextLen)>>,
      <<TextMessage(MaxTextLen), TextMessage(1), AssistantMessage(<<"A">>)>> }

SplitLengths == {0, 1}
ImageLimits == {0, 1}
Templates == {<<>>, <<"T">>}
SummarizePrompts == {<<>>, <<"S">>}
SplitModes ==
    {split_mode_name_none, split_mode_name_split, split_mode_name_split_and_summarize}

RequestContexts ==
    { ChatRequestContext(m, l, i, t, s) :
        m \in SplitModes, l \in SplitLengths, i \in ImageLimits,
        t \in Templates, s \in SummarizePrompts }

ConcurrencyLimits == (1..MaxConcurrency) \cup {DefaultConcurrencyLimit}

-----------------------------------------------------------------------------
(* One turn: LLMClient.chat *)

\* the table pd.read_excel returns: which of content_column and
\* file_path_column it has, and its rows. A cell of a column the table lacks
\* is not there; a file_path cell is empty, the path of no file, or of a file.
Table(content_column, file_path_column, rows) ==
    [content_column |-> content_column, file_path_column |-> file_path_column,
     rows |-> rows]
NoTable == Table(FALSE, FALSE, <<>>)

\* the output table: not written, or written with the output column
NotWritten == [written |-> FALSE, output |-> <<>>]
WrittenColumn(values) == [written |-> TRUE, output |-> values]

\* chat_messages without the fallback on the History
chat_messages_as_given == chat_message_list

\* lines 408-413 and 437-442: the messages the turn works on
chat_messages ==
    IF Len(chat_message_list) = 0
    THEN get_last_role_messages(chat_history, user_role)
    ELSE chat_message_list

BatchIdle ==
    /\ entry = "none"
    /\ chat_histories = <<>>
    /\ concurrency = 1
    /\ row = <<>>
    /\ row_history = <<>>
    /\ row_result = <<>>
    /\ progress = 0
    /\ bpc = "idle"
    /\ responses = <<>>
    /\ messages = <<>>
    /\ response_messages = <<>>
    /\ batch_error = ""
    /\ table = NoTable
    /\ output_excel = NotWritten

\* no block built; LLM_PROVIDER defaults to "openai"
BlocksIdle ==
    /\ llm_provider = "openai"
    /\ contents = <<>>

TurnInit ==
    /\ \/ /\ chat_history \in PriorHistories
          /\ chat_message_list \in InputMessageLists
       \/ /\ chat_history \in FallbackHistories
          /\ chat_message_list = <<>>
    /\ request_context \in RequestContexts \cup {NoContext}
    /\ concurrency_limit \in ConcurrencyLimits
    /\ pc = "idle"
    /\ preprocessed_messages = <<>>
    /\ task = <<>>
    /\ task_result = <<>>
    /\ chat_responses = <<>>
    /\ loop_i = 0
    /\ summary_history = <<>>
    /\ backend_calls = <<>>
    /\ result = NoResult
    /\ prior_history = chat_history
    /\ text_messages = <<>>
    /\ resolved_messages = chat_messages
    /\ out_of_order = FALSE
    /\ client = 1
    /\ BatchIdle
    /\ BlocksIdle

\* the messages __process_message__ and the loop of lines 473-480 send:
\* a deep copy of self.chat_history with the message added
BranchMessages(i) == add_message(chat_history, preprocessed_messages[i])

\* number of tasks inside "async with sem"
InGate == Cardinality({i \in 1..Len(task) : task[i] = "inflight"})

\* lines 396-417: __normal_chat__ up to the await of _chat_completion_
NormalChat ==
    /\ pc = "idle"
    /\ request_context = NoContext
    /\ IF Len(chat_messages) = 0
       THEN /\ pc' = "raised"
            /\ result' = Raised("ValueError")
            /\ UNCHANGED <<chat_history, backend_calls>>
       ELSE /\ chat_history' = chat_history \o chat_messages
            /\ backend_calls' =
                   Append(backend_calls, BackendCall("normal", 0, chat_history \o chat_messages))
            /\ pc' = "normal"
            /\ UNCHANGED result
    /\ UNCHANGED <<chat_message_list, request_context, concurrency_limit,
                   preprocessed_messages, task, task_result, chat_responses, loop_i,
                   summary_history, batch_vars, client, prior_history, text_messages,
                   resolved_messages, out_of_order>>

\* NormalChatReturn without the answer appended to the History
NormalChatReturnNoAnswer ==
    /\ pc = "normal"
    /\ \E out \in Outputs :
         result' = Returned(BackendResponse(out, CallOf("normal", 0)))
    /\ pc' = "done"
    /\ UNCHANGED <<chat_history, chat_message_list, request_context, concurrency_limit,
                   preprocessed_messages, task, task_result, chat_responses, loop_i,
                   summary_history, backend_calls, batch_vars, client, prior_history, text_messages,
                   resolved_messages, out_of_order>>

\* lines 417-423: the call returns, the answer is appended to the History
NormalChatReturn ==
    /\ pc = "normal"
    /\ \E out \in Outputs :
         LET chat_response == BackendResponse(out, CallOf("normal", 0)) IN
           /\ chat_history' = add_message(chat_history, AssistantMessage(chat_response.output))
           /\ result' = Returned(chat_response)
    /\ pc' = "done"
    /\ UNCHANGED <<chat_message_list, request_context, concurrency_limit,
                   preprocessed_messages, task, task_result, chat_responses, loop_i,
                   summary_history, backend_calls, batch_vars, client, prior_history, text_messages,
                   resolved_messages, out_of_order>>

\* line 417: the call fails
NormalChatFail ==
    /\ pc = "normal"
    /\ pc' = "raised"
    /\ result' = Raised("BackendError")
    /\ UNCHANGED <<chat_history, chat_message_list, request_context, concurrency_limit,
                   preprocessed_messages, task, task_result, chat_responses, loop_i,
                   summary_history, backend_calls, batch_vars, client, prior_history, text_messages,
                   resolved_messages, out_of_order>>

\* lines 437-466: __chat_with_request_context__ up to the await of gather.
\* __insert_prompt_template__ changes the message objects it is given: the
\* caller's, or the one of the History when the turn fell back on it.
ChatWithRequestContext ==
    /\ pc = "idle"
    /\ request_context # NoContext
    /\ IF Len(chat_messages) = 0 \/ TextPreprocessRaises(request_context)
       THEN /\ pc' = "raised"
            /\ result' = Raised("ValueError")
            /\ UNCHANGED <<chat_history, chat_message_list, preprocessed_messages,
                           task, task_result, text_messages>>
       ELSE /\ text_messages' = __preprocess_text_message__(chat_messages, request_context)
            /\ preprocessed_messages' = __preprocess_image_urls__(text_messages', request_context)
            /\ task' = [i \in 1..Len(preprocessed_messages') |-> "created"]
            /\ task_result' = [i \in 1..Len(preprocessed_messages') |-> <<i - 1, NoResponse>>]
            /\ chat_message_list' =
                   IF TextPreprocessInPlace(chat_messages, request_context)
                      /\ Len(chat_message_list) # 0
                   THEN __insert_prompt_template__(chat_message_list, request_context)
                   ELSE chat_message_list
            /\ chat_history' =
                   IF TextPreprocessInPlace(chat_messages, request_context)
                      /\ Len(chat_message_list) = 0
                   THEN [chat_history EXCEPT ![LastRolePos(chat_history, user_role)] =
                            __insert_prompt_template__(<<@>>, request_context)[1]]
                   ELSE chat_history
            /\ pc' = "gather"
            /\ UNCHANGED result
    /\ UNCHANGED <<request_context, concurrency_limit, chat_responses, loop_i,
                   summary_history, backend_calls, batch_vars, client, prior_history,
                   resolved_messages, out_of_order>>

\* MayAcquire without the gate: a task that runs without taking a slot
MayAcquireUngated(states, i, limit, in_gate) ==
    /\ states[i] = "created"
    /\ \A j \in 1..(i - 1) : states[j] # "created"

\* asyncio.Semaphore wakes its waiters in the order they arrived, and the tasks
\* arrive in the order they were created
MayAcquire(states, i, limit, in_gate) ==
    /\ states[i] = "created"
    /\ \A j \in 1..(i - 1) : states[j] # "created"
    /\ in_gate < limit

\* ProcessMessage without the deep copy: the branch adds its message to the
\* caller's History and sends that
ProcessMessageOnSharedHistory(i) ==
    /\ MayAcquire(task, i, concurrency_limit, InGate)
    /\ task' = [task EXCEPT ![i] = "inflight"]
    /\ chat_history' = add_message(chat_history, preprocessed_messages[i])
    /\ backend_calls' = Append(backend_calls, BackendCall("branch", i - 1, chat_history'))
    /\ UNCHANGED <<chat_message_list, request_context, concurrency_limit, pc,
                   preprocessed_messages, task_result, chat_responses, loop_i,
                   summary_history, result, batch_vars, client, prior_history, text_messages,
                   resolved_messages, out_of_order>>

\* lines 462-464 and 450-455: task i enters the gate and starts its backend call
ProcessMessage(i) ==
    /\ MayAcquire(task, i, concurrency_limit, InGate)
    /\ task' = [task EXCEPT ![i] = "inflight"]
    /\ backend_calls' = Append(backend_calls, BackendCall("branch", i - 1, BranchMessages(i)))
    /\ UNCHANGED <<chat_history, chat_message_list, request_context, concurrency_limit, pc,
                   preprocessed_messages, task_result, chat_responses, loop_i,
                   summary_history, result, batch_vars, client, prior_history, text_messages,
                   resolved_messages, out_of_order>>

\* lines 455-456: the call of task i returns; the task leaves the gate
ProcessMessageReturn(i) ==
    /\ task[i] = "inflight"
    /\ \E out \in Outputs :
         task_result' = [task_result EXCEPT
                            ![i] = <<i - 1, BackendResponse(out, CallOf("branch", i - 1))>>]
    /\ task' = [task EXCEPT ![i] = "done"]
    /\ out_of_order' = (out_of_order \/ \E j \in 1..(i - 1) : task[j] # "done")
    /\ UNCHANGED <<chat_history, chat_message_list, request_context, concurrency_limit, pc,
                   preprocessed_messages, chat_responses, loop_i, summary_history,
                   backend_calls, result, batch_vars, client, prior_history, text_messages,
                   resolved_messages>>

\* line 455: the call of task i fails; the task leaves the gate
ProcessMessageFail(i) ==
    /\ task[i] = "inflight"
    /\ task' = [task EXCEPT ![i] = "failed"]
    /\ UNCHANGED <<chat_history, chat_message_list, request_context, concurrency_limit, pc,
                   preprocessed_messages, task_result, chat_responses, loop_i,
                   summary_history, backend_calls, result, batch_vars, client, prior_history, text_messages,
                   resolved_messages, out_of_order>>

\* line 467: gather raises the error of a failed task; the other tasks go on
GatherRaise ==
    /\ pc = "gather"
    /\ \E i \in 1..Len(task) : task[i] = "failed"
    /\ pc' = "raised"
    /\ result' = Raised("BackendError")
    /\ UNCHANGED <<chat_history, chat_message_list, request_context, concurrency_limit,
                   preprocessed_messages, task, task_result, chat_responses, loop_i,
                   summary_history, backend_calls, batch_vars, client, prior_history, text_messages,
                   resolved_messages, out_of_order>>

\* line 467: gather returns the tasks' results in the order of the tasks
GatherResults(results) == [i \in 1..Len(results) |-> results[i]]

Reverse(seq) == [k \in 1..Len(seq) |-> seq[Len(seq) + 1 - k]]

\* SortedResponses with the sort in descending order
SortedResponsesDescending(results) ==
    [i \in 1..Len(results) |-> Reverse(SortByKey(GatherResults(results)))[i][2]]

\* lines 469-471
SortedResponses(results) ==
    [i \in 1..Len(results) |-> SortByKey(GatherResults(results))[i][2]]

\* Finish appending the messages as they were resolved, before preprocessing
FinishWithResolvedMessages(response) ==
    /\ chat_history' =
           add_message(chat_history \o resolved_messages,
                       AssistantMessage(response.output))
    /\ result' = Returned(response)
    /\ pc' = "done"

\* lines 483-496 from the call of __postprocess_messages__ on, with the list it
\* is given and the log of calls so far: merge and finish, raise, or start the
\* summary call (lines 652-671, and 413-417 on the summary client)
Finish(response) ==
    /\ chat_history' =
           add_message(chat_history \o preprocessed_messages,
                       AssistantMessage(response.output))
    /\ result' = Returned(response)
    /\ pc' = "done"

Postprocess(chat_response_list, calls) ==
    IF PostprocessMerges(request_context)
    THEN /\ Finish(MergedResponse(chat_response_list))
         /\ backend_calls' = calls
         /\ UNCHANGED summary_history
    ELSE IF PostprocessRaises(request_context)
    THEN /\ pc' = "raised"
         /\ result' = Raised("ValueError")
         /\ backend_calls' = calls
         /\ UNCHANGED <<chat_history, summary_history>>
    ELSE /\ summary_history' =
                add_message(summary_history,
                    ChatMessage(user_role,
                        <<create_text_content(
                              SummarizeRequestText(chat_response_list, request_context))>>))
         /\ backend_calls' = Append(calls, BackendCall("summary", 0, summary_history'))
         /\ pc' = "summary"
         /\ UNCHANGED <<chat_history, result>>

\* lines 467-479: gather returns, the tuples are sorted, and the loop of lines
\* 473-480 starts its first backend call (or, with no message, line 483 runs)
GatherReturn ==
    /\ pc = "gather"
    /\ \A i \in 1..Len(task) : task[i] = "done"
    /\ IF Len(preprocessed_messages) = 0
       THEN /\ chat_responses' = SortedResponses(task_result)
            /\ Postprocess(chat_responses', backend_calls)
            /\ UNCHANGED loop_i
       ELSE /\ chat_responses' = SortedResponses(task_result)
            /\ loop_i' = 1
            /\ backend_calls' = Append(backend_calls, BackendCall("loop", 0, BranchMessages(1)))
            /\ pc' = "loop"
            /\ UNCHANGED <<chat_history, summary_history, result>>
    /\ UNCHANGED <<chat_message_list, request_context, concurrency_limit,
                   preprocessed_messages, task, task_result, batch_vars, client, prior_history, text_messages,
                   resolved_messages, out_of_order>>

\* lines 479-483: the call of the loop returns and is appended; the loop goes
\* on with the next message or line 483 runs
LoopReturn ==
    /\ pc = "loop"
    /\ \E out \in Outputs :
         /\ chat_responses' =
                Append(chat_responses, BackendResponse(out, CallOf("loop", loop_i - 1)))
         /\ IF loop_i < Len(preprocessed_messages)
            THEN /\ loop_i' = loop_i + 1
                 /\ backend_calls' =
                        Append(backend_calls, BackendCall("loop", loop_i, BranchMessages(loop_i + 1)))
                 /\ UNCHANGED <<chat_history, summary_history, result, pc>>
            ELSE /\ Postprocess(chat_responses', backend_calls)
                 /\ UNCHANGED loop_i
    /\ UNCHANGED <<chat_message_list, request_context, concurrency_limit,
                   preprocessed_messages, task, task_result, batch_vars, client, prior_history, text_messages,
                   resolved_messages, out_of_order>>

\* line 479: the call of the loop fails
LoopFail ==
    /\ pc = "loop"
    /\ pc' = "raised"
    /\ result' = Raised("BackendError")
    /\ UNCHANGED <<chat_history, chat_message_list, request_context, concurrency_limit,
                   preprocessed_messages, task, task_result, chat_responses, loop_i,
                   summary_history, backend_calls, batch_vars, client, prior_history, text_messages,
                   resolved_messages, out_of_order>>

\* lines 671-672, 417-423 and 483-496: the summary call returns; its answer is
\* appended to the summary client's History and is the result of the turn
SummaryReturn ==
    /\ pc = "summary"
    /\ \E out \in Outputs :
         LET summarize_response == BackendResponse(out, CallOf("summary", 0)) IN
           /\ summary_history' =
                  add_message(summary_history, AssistantMessage(summarize_response.output))
           /\ Finish(summarize_response)
    /\ UNCHANGED <<chat_message_list, request_context, concurrency_limit,
                   preprocessed_messages, task, task_result, chat_responses, loop_i,
                   backend_calls, batch_vars, client, prior_history, text_messages,
                   resolved_messages, out_of_order>>

\* line 671: the summary call fails
SummaryFail ==
    /\ pc = "summary"
    /\ pc' = "raised"
    /\ result' = Raised("BackendError")
    /\ UNCHANGED <<chat_history, chat_message_list, request_context, concurrency_limit,
                   preprocessed_messages, task, task_result, chat_responses, loop_i,
                   summary_history, backend_calls, batch_vars, client, prior_history, text_messages,
                   resolved_messages, out_of_order>>

TurnNext ==
    \/ NormalChat
    \/ NormalChatReturn
    \/ NormalChatFail
    \/ ChatWithRequestContext
    \/ \E i \in 1..Len(task) : ProcessMessage(i)
    \/ \E i \in 1..Len(task) : ProcessMessageReturn(i)
    \/ \E i \in 1..Len(task) : ProcessMessageFail(i)
    \/ GatherRaise
    \/ GatherReturn
    \/ LoopReturn
    \/ LoopFail
    \/ SummaryReturn
    \/ SummaryFail

TurnSpec == TurnInit /\ [][TurnNext]_vars

-----------------------------------------------------------------------------
(* One run of LLMBatchClient *)

\* the prompt argument of run_simple_batch_chat
Prompt == <<"P">>

RowHistories ==
    { <<>>,
      <<TextMessage(1)>>,
      <<AssistantMessage(<<"A">>)>> }

SimpleMessages == { <<>>, TextOfLen(1) }

\* sequences over S of length at most n
SeqsUpTo(S, n) == UNION {[1..k -> S] : k \in 0..n}

\* the rows of the input table: (content cell, file_path cell)
ExcelRow(content, file_path) == [content |-> content, file_path |-> file_path]
ExcelRows ==
    { ExcelRow(<<>>, ""), ExcelRow(TextOfLen(1), ""), ExcelRow(<<>>, "file"),
      ExcelRow(TextOfLen(1), "nofile") }

Tables ==
    { Table(c, f, rows) :
        c \in BOOLEAN, f \in BOOLEAN, rows \in SeqsUpTo(ExcelRows, MaxRows - 1) }

\* lines 115-139: the History built for a row of the table
ExcelRowHistory(excel_row, k) ==
    IF excel_row.content = <<>> /\ excel_row.file_path = ""
    THEN <<>>
    ELSE <<ChatMessage(user_role,
              <<create_text_content(Prompt \o <<NL>> \o excel_row.content)>>
              \o (IF excel_row.file_path = "file" THEN <<FileContent(k)>> ELSE <<>>))>>

TurnIdle ==
    /\ chat_history = <<>>
    /\ chat_message_list = <<>>
    /\ request_context = NoContext
    /\ concurrency_limit = DefaultConcurrencyLimit
    /\ pc = "off"
    /\ preprocessed_messages = <<>>
    /\ task = <<>>
    /\ task_result = <<>>
    /\ chat_responses = <<>>
    /\ loop_i = 0
    /\ summary_history = <<>>
    /\ result = NoResult
    /\ prior_history = <<>>
    /\ text_messages = <<>>
    /\ resolved_messages = chat_messages
    /\ client = 1

BatchInit ==
    /\ TurnIdle
    /\ backend_calls = <<>>
    /\ out_of_order = FALSE
    /\ concurrency \in 1..MaxConcurrency
    /\ \/ /\ entry = "run_batch_chat"
          /\ chat_histories \in SeqsUpTo(RowHistories, MaxRows)
          /\ messages = <<>>
          /\ table = NoTable
       \/ /\ entry = "run_simple_batch_chat"
          /\ chat_histories = <<>>
          /\ messages \in SeqsUpTo(SimpleMessages, MaxRows)
          /\ table = NoTable
       \/ /\ entry = "run_batch_chat_from_excel"
          /\ chat_histories = <<>>
          /\ messages = <<>>
          /\ table \in Tables
    /\ output_excel = NotWritten
    /\ BlocksIdle
    /\ row = <<>>
    /\ row_history = <<>>
    /\ row_result = <<>>
    /\ progress = 0
    /\ bpc = "idle"
    /\ responses = <<>>
    /\ response_messages = <<>>
    /\ batch_error = ""

\* lines 40-54: the tasks are created and run_batch_chat awaits gather
StartTasks(histories) ==
    /\ row' = [i \in 1..Len(histories) |-> "created"]
    /\ row_history' = histories
    /\ row_result' = [i \in 1..Len(histories) |-> <<i - 1, NoResponse, <<>>>>]
    /\ bpc' = "running"

RunBatchChat ==
    /\ bpc = "idle"
    /\ entry = "run_batch_chat"
    /\ StartTasks(chat_histories)
    /\ UNCHANGED <<turn_vars, llm_provider, contents, table, output_excel, out_of_order, backend_calls, entry, chat_histories, concurrency, progress,
                   responses, messages, response_messages, batch_error>>

\* lines 66-74: one History per message, then run_batch_chat
RunSimpleBatchChat ==
    /\ bpc = "idle"
    /\ entry = "run_simple_batch_chat"
    /\ chat_histories' =
           [k \in 1..Len(messages) |->
               <<ChatMessage(user_role,
                     <<create_text_content(Prompt \o <<NL>> \o messages[k])>>)>>]
    /\ StartTasks(chat_histories')
    /\ UNCHANGED <<turn_vars, llm_provider, contents, table, output_excel, out_of_order, backend_calls, entry, concurrency, progress,
                   responses, messages, response_messages, batch_error>>

\* the Histories of the table with the rows of empty cells left out
ExcelHistoriesSkippingEmptyRows(rows) ==
    LET kept == SelectSeq([k \in 1..Len(rows) |-> k],
                          LAMBDA k : ExcelRowHistory(rows[k], k) # <<>>)
    IN  [n \in 1..Len(kept) |-> ExcelRowHistory(rows[kept[n]], kept[n])]

\* lines 113-139: one History per row of the table, in the order of the rows
ExcelHistories(rows) == [k \in 1..Len(rows) |-> ExcelRowHistory(rows[k], k)]

\* RunBatchChatFromExcel without the check of lines 97-99
RunBatchChatFromExcelUnchecked ==
    /\ bpc = "idle"
    /\ entry = "run_batch_chat_from_excel"
    /\ IF Len(table.rows) > 0 /\ (~table.content_column \/ ~table.file_path_column)
       THEN /\ bpc' = "raised"
            /\ batch_error' = "KeyError"
            /\ UNCHANGED <<chat_histories, row, row_history, row_result>>
       ELSE /\ chat_histories' = ExcelHistories(table.rows)
            /\ StartTasks(chat_histories')
            /\ UNCHANGED batch_error
    /\ UNCHANGED <<turn_vars, llm_provider, contents, table, output_excel, out_of_order, backend_calls, entry,
                   concurrency, progress, responses, messages, response_messages>>

\* lines 92-142: the columns are checked, one History is built per row, then
\* run_batch_chat. row[content_column] and row[file_path_column] are read for
\* every row: a column the table lacks is a KeyError at the first row.
RunBatchChatFromExcel ==
    /\ bpc = "idle"
    /\ entry = "run_batch_chat_from_excel"
    /\ IF ~table.content_column /\ ~table.file_path_column
       THEN /\ bpc' = "raised"
            /\ batch_error' = "ValueError"
            /\ UNCHANGED <<chat_histories, row, row_history, row_result>>
       ELSE IF Len(table.rows) > 0 /\ (~table.content_column \/ ~table.file_path_column)
       THEN /\ bpc' = "raised"
            /\ batch_error' = "KeyError"
            /\ UNCHANGED <<chat_histories, row, row_history, row_result>>
       ELSE /\ chat_histories' = ExcelHistories(table.rows)
            /\ StartTasks(chat_histories')
            /\ UNCHANGED batch_error
    /\ UNCHANGED <<turn_vars, llm_provider, contents, table, output_excel, out_of_order, backend_calls, entry,
                   concurrency, progress, responses, messages, response_messages>>

\* gather keeps the first exception one of its tasks raises
FirstError(held, error) == IF held = "" THEN error ELSE held

\* RowsInGate of a gate whose slots are never released
RowsInGateNeverReleased == Cardinality({i \in 1..Len(row) : row[i] # "created"})

\* number of rows inside "async with sem"
RowsInGate == Cardinality({i \in 1..Len(row) : row[i] = "inflight"})

\* ProcessRow without the test of line 20: every row is sent to the backend
ProcessRowAlwaysCalls(i) ==
    /\ MayAcquire(row, i, concurrency, RowsInGate)
    /\ row_history' =
           [row_history EXCEPT
               ![i] = @ \o get_last_role_messages(row_history[i], user_role)]
    /\ backend_calls' = Append(backend_calls, BackendCall("row", i - 1, row_history'[i]))
    /\ row' = [row EXCEPT ![i] = "inflight"]
    /\ UNCHANGED <<row_result, progress, batch_error>>
    /\ UNCHANGED <<turn_vars, llm_provider, contents, table, output_excel, out_of_order, entry, chat_histories, concurrency, bpc, responses,
                   messages, response_messages>>

\* lines 46-49 and 16-31: row i enters the gate. An empty History is answered
\* at once; otherwise the row's client runs chat() without messages
\* (__normal_chat__, lines 408-417) up to the await of its backend call.
ProcessRow(i) ==
    /\ MayAcquire(row, i, concurrency, RowsInGate)
    /\ IF Len(row_history[i]) = 0
       THEN /\ row_result' = [row_result EXCEPT
                                 ![i] = <<i - 1, ChatResponse(<<>>, 0, 0, 0), row_history[i]>>]
            /\ progress' = progress + 1
            /\ row' = [row EXCEPT ![i] = "done"]
            /\ UNCHANGED <<row_history, backend_calls, batch_error>>
       ELSE IF Len(get_last_role_messages(row_history[i], user_role)) = 0
       THEN /\ row' = [row EXCEPT ![i] = "failed"]
            /\ batch_error' = FirstError(batch_error, "ValueError")
            /\ UNCHANGED <<row_result, progress, row_history, backend_calls>>
       ELSE /\ row_history' =
                   [row_history EXCEPT
                       ![i] = @ \o get_last_role_messages(row_history[i], user_role)]
            /\ backend_calls' = Append(backend_calls, BackendCall("row", i - 1, row_history'[i]))
            /\ row' = [row EXCEPT ![i] = "inflight"]
            /\ UNCHANGED <<row_result, progress, batch_error>>
    /\ UNCHANGED <<turn_vars, llm_provider, contents, table, output_excel, out_of_order, entry, chat_histories, concurrency, bpc, responses,
                   messages, response_messages>>

\* lines 417-423 and 27-31: the call of row i returns; the answer is appended
\* to the row's History, the progress bar moves and the row leaves the gate
ProcessRowReturn(i) ==
    /\ row[i] = "inflight"
    /\ \E out \in Outputs :
         LET chat_response == BackendResponse(out, CallOf("row", i - 1)) IN
           /\ row_history' =
                  [row_history EXCEPT
                      ![i] = add_message(@, AssistantMessage(chat_response.output))]
           /\ row_result' = [row_result EXCEPT ![i] = <<i - 1, chat_response, row_history'[i]>>]
    /\ progress' = progress + 1
    /\ row' = [row EXCEPT ![i] = "done"]
    /\ out_of_order' = (out_of_order \/ \E j \in 1..(i - 1) : row[j] # "done")
    /\ UNCHANGED <<turn_vars, llm_provider, contents, table, output_excel, backend_calls, entry, chat_histories, concurrency, bpc,
                   responses, messages, response_messages, batch_error>>

\* line 27: the call of row i fails; the row leaves the gate
ProcessRowFail(i) ==
    /\ row[i] = "inflight"
    /\ row' = [row EXCEPT ![i] = "failed"]
    /\ batch_error' = FirstError(batch_error, "BackendError")
    /\ UNCHANGED <<turn_vars, llm_provider, contents, table, output_excel, out_of_order, backend_calls, entry, chat_histories, concurrency,
                   row_history, row_result, progress, bpc, responses, messages,
                   response_messages>>

\* lines 53-56: gather raises the error of a failed row; the other tasks go on
BatchRaise ==
    /\ bpc = "running"
    /\ \E i \in 1..Len(row) : row[i] = "failed"
    /\ bpc' = "raised"
    /\ UNCHANGED <<turn_vars, llm_provider, contents, table, output_excel, out_of_order, backend_calls, entry, chat_histories, concurrency, row,
                   row_history, row_result, progress, responses, messages,
                   response_messages, batch_error>>

\* SortedRows with the sort in descending order
SortedRowsDescending(results) == Reverse(SortByKey(GatherResults(results)))

\* lines 58-60
SortedRows(results) == SortByKey(GatherResults(results))

\* lines 75-79
OutputsOf(tuples) == [k \in 1..Len(tuples) |-> tuples[k][2].output]

\* BatchReturn with gather collecting the exceptions as results
\* (return_exceptions=True): the run returns although a row failed
BatchReturnDespiteFailures ==
    /\ bpc = "running"
    /\ \A i \in 1..Len(row) : row[i] \in {"done", "failed"}
    /\ responses' = SortedRows(row_result)
    /\ response_messages' =
           IF entry = "run_simple_batch_chat" THEN OutputsOf(responses') ELSE <<>>
    /\ output_excel' =
           IF entry = "run_batch_chat_from_excel"
           THEN WrittenColumn(OutputsOf(responses')) ELSE output_excel
    /\ bpc' = "returned"
    /\ UNCHANGED <<turn_vars, llm_provider, contents, table, out_of_order, backend_calls, entry, chat_histories, concurrency, row,
                   row_history, row_result, progress, messages, batch_error>>

\* lines 54-60 (and 75-79): gather returns, the tuples are sorted and returned
BatchReturn ==
    /\ bpc = "running"
    /\ \A i \in 1..Len(row) : row[i] = "done"
    /\ responses' = SortedRows(row_result)
    /\ response_messages' =
           IF entry = "run_simple_batch_chat" THEN OutputsOf(responses') ELSE <<>>
    /\ output_excel' =
           IF entry = "run_batch_chat_from_excel"
           THEN WrittenColumn(OutputsOf(responses')) ELSE output_excel
    /\ bpc' = "returned"
    /\ UNCHANGED <<turn_vars, llm_provider, contents, table, out_of_order, backend_calls, entry, chat_histories, concurrency, row,
                   row_history, row_result, progress, messages, batch_error>>

BatchNext ==
    \/ RunBatchChat
    \/ RunSimpleBatchChat
    \/ RunBatchChatFromExcel
    \/ \E i \in 1..Len(row) : ProcessRow(i)
    \/ \E i \in 1..Len(row) : ProcessRowReturn(i)
    \/ \E i \in 1..Len(row) : ProcessRowFail(i)
    \/ BatchRaise
    \/ BatchReturn

BatchSpec == BatchInit /\ [][BatchNext]_vars

-----------------------------------------------------------------------------
(* A behaviour is one turn on a client or one run of the batch client *)

Init == TurnInit \/ BatchInit

Next == TurnNext \/ BatchNext

Spec == Init /\ [][Next]_vars

-----------------------------------------------------------------------------
(* run_batch_chat on an event loop that keeps running, with a backend whose *)
(* every call returns an answer                                            *)

LiveInit == BatchInit /\ entry = "run_batch_chat"

LiveNext ==
    \/ RunBatchChat
    \/ \E i \in 1..Len(row) : ProcessRow(i)
    \/ \E i \in 1..Len(row) : ProcessRowReturn(i)
    \/ BatchRaise
    \/ BatchReturn

\* while a coroutine is ready (the run itself, a row the gate lets in) or a
\* backend call is awaited, the event loop runs one or a call returns
LiveFairness == WF_vars(LiveNext)

LiveSpec == LiveInit /\ [][LiveNext]_vars /\ LiveFairness

-----------------------------------------------------------------------------
(* Two clients created without a History, one turn on each                 *)

\* The chat_request parameter of LLMFactory.create_llm_client and of
\* OpenAIClient.__init__ defaults to a ChatRequest built once, when the
\* function is defined, and the client keeps the object it is given
\* (self.chat_request = chat_request); chat_history of LLMClient is a class
\* attribute. Clients created without a History therefore hold the same
\* History object: chat_history is that object, for the 1st client and for
\* the 2nd. The same goes for the client of the summary call, which create()
\* builds without a History (line 665): summary_history is one object too.
ClientsContexts ==
    { NoContext,
      ChatRequestContext(split_mode_name_none, 0, 0, <<>>, <<>>),
      ChatRequestContext(split_mode_name_split_and_summarize, 1, 0, <<"T">>, <<"S">>) }

ClientsInit ==
    /\ TurnInit
    /\ chat_history = <<>>
    /\ chat_message_list \in {<<TextMessage(1)>>, <<TextMessage(1), TextMessage(1)>>}
    /\ request_context \in ClientsContexts
    /\ concurrency_limit = DefaultConcurrencyLimit

\* the turn on the 1st client is over; a turn is started on the 2nd client,
\* with a message of its own. backend_calls is from now on the log of the
\* calls of that turn. The History the 2nd client holds is the object the
\* 1st one holds, with what the 1st turn left in it.
NextClient ==
    /\ client = 1
    /\ pc \in {"done", "raised"}
    /\ \A i \in 1..Len(task) : task[i] \in {"done", "failed"}
    /\ client' = 2
    /\ chat_message_list' = <<TextMessage(MaxTextLen)>>
    /\ request_context' \in ClientsContexts
    /\ pc' = "idle"
    /\ preprocessed_messages' = <<>>
    /\ task' = <<>>
    /\ task_result' = <<>>
    /\ chat_responses' = <<>>
    /\ loop_i' = 0
    /\ backend_calls' = <<>>
    /\ result' = NoResult
    /\ prior_history' = chat_history
    /\ text_messages' = <<>>
    /\ resolved_messages' = chat_message_list'
    /\ out_of_order' = FALSE
    /\ UNCHANGED <<chat_history, summary_history, concurrency_limit, batch_vars>>

ClientsNext == TurnNext \/ NextClient

ClientsSpec == ClientsInit /\ [][ClientsNext]_vars

-----------------------------------------------------------------------------
(* The content blocks of the client classes: builders and predicates        *)

\* OpenAIClient, AzureOpenAIClient (which inherits them), AnthropicClient,
\* AWSBedrockClient
Providers == {"openai", "azure_openai", "anthropic", "aws_bedrock"}

\* params["type"] of the block _create_image_content_ builds
ImageContentType(provider) ==
    IF provider = "anthropic" THEN "image" ELSE "image_url"

\* params["type"] of the block _create_pdf_content_ builds
PdfContentType(provider) ==
    IF provider = "anthropic" THEN "document" ELSE "file"

\* create_text_content, _create_image_content_, _create_pdf_content_: the
\* block, with its data numbered k
ClientTextContent(provider, text) == [type |-> "text", text |-> text, id |-> 0]
ClientImageContent(provider, k) ==
    [type |-> ImageContentType(provider), text |-> <<>>, id |-> k]
ClientPdfContent(provider, k) ==
    [type |-> PdfContentType(provider), text |-> <<>>, id |-> k]

\* _is_text_content_, _is_image_content_, _is_file_content_
ClientIsText(provider, content) == content.type = "text"
ClientIsImage(provider, content) ==
    content.type = (IF provider = "anthropic" THEN "image" ELSE "image_url")
ClientIsFile(provider, content) == content.type = "file"

BlocksInit ==
    /\ TurnIdle
    /\ BatchIdle
    /\ backend_calls = <<>>
    /\ out_of_order = FALSE
    /\ llm_provider \in Providers
    /\ contents = <<>>

Built(builder, block) == [builder |-> builder, block |-> block]

BlocksUnchanged == UNCHANGED <<turn_vars, backend_calls, out_of_order, entry, chat_histories, concurrency, row, row_history, row_result, progress, bpc, responses, messages, response_messages, batch_error, table, output_excel, llm_provider>>

CreateTextContent ==
    /\ pc = "off" /\ bpc = "idle" /\ entry = "none"
    /\ Len(contents) < MaxBlocks
    /\ \E n \in 0..MaxTextLen :
         contents' = Append(contents,
                        Built("text", ClientTextContent(llm_provider, TextOfLen(n))))
    /\ BlocksUnchanged

CreateImageContent ==
    /\ pc = "off" /\ bpc = "idle" /\ entry = "none"
    /\ Len(contents) < MaxBlocks
    /\ \E k \in 1..MaxImages :
         contents' = Append(contents, Built("image", ClientImageContent(llm_provider, k)))
    /\ BlocksUnchanged

CreatePdfContent ==
    /\ pc = "off" /\ bpc = "idle" /\ entry = "none"
    /\ Len(contents) < MaxBlocks
    /\ \E k \in 1..MaxImages :
         contents' = Append(contents, Built("file", ClientPdfContent(llm_provider, k)))
    /\ BlocksUnchanged

BlocksNext == CreateTextContent \/ CreateImageContent \/ CreatePdfContent

BlocksSpec == BlocksInit /\ [][BlocksNext]_vars

-----------------------------------------------------------------------------
(* Preprocessing alone: lines 437-466 on messages of up to MaxBlocks blocks *)

\* the kinds of block a message is built from
BlockKinds == {"empty", "char", "text", "image", "file"}

\* the text of the block at position p: every character names its block
TextAt(p, n) == [k \in 1..n |-> ToString(p) \o "." \o ToString(k)]

BlockOf(kind, p) ==
    CASE kind = "empty" -> create_text_content(<<>>)
      [] kind = "char" -> create_text_content(TextAt(p, 1))
      [] kind = "text" -> create_text_content(TextAt(p, MaxTextLen))
      [] kind = "image" -> ImageContent(p)
      [] kind = "file" -> FileContent(p)

\* a user message of the given kinds of block, the blocks numbered from base + 1
MessageOf(kinds, base) ==
    ChatMessage(user_role, [p \in 1..Len(kinds) |-> BlockOf(kinds[p], base + p)])

\* the kinds of block of the second of two messages
SecondBlockKinds == {"char", "image"}

PreMessageLists ==
    { <<MessageOf(kinds, 0)>> : kinds \in SeqsUpTo(BlockKinds, MaxBlocks) }
    \cup { <<MessageOf(k1, 0), MessageOf(k2, MaxBlocks)>> :
              k1 \in SeqsUpTo(BlockKinds, 1),
              k2 \in SeqsUpTo(BlockKinds, 1) \cup SeqsUpTo(SecondBlockKinds, MaxBlocks) }

PreContexts ==
    { ChatRequestContext(m, l, i, t, <<"S">>) :
        m \in SplitModes, l \in 0..MaxSplitLength, i \in 0..MaxImagesPerRequest,
        t \in Templates }

PreInit ==
    /\ chat_history = <<>>
    /\ chat_message_list \in PreMessageLists
    /\ request_context \in PreContexts
    /\ concurrency_limit = DefaultConcurrencyLimit
    /\ pc = "idle"
    /\ preprocessed_messages = <<>>
    /\ task = <<>>
    /\ task_result = <<>>
    /\ chat_responses = <<>>
    /\ loop_i = 0
    /\ summary_history = <<>>
    /\ backend_calls = <<>>
    /\ result = NoResult
    /\ prior_history = <<>>
    /\ text_messages = <<>>
    /\ resolved_messages = chat_messages
    /\ out_of_order = FALSE
    /\ client = 1
    /\ BatchIdle
    /\ BlocksIdle

PreNext == ChatWithRequestContext

PreSpec == PreInit /\ [][PreNext]_vars

-----------------------------------------------------------------------------
(* Properties *)

\* number of preprocessed messages of the turn
N == Len(preprocessed_messages)

WithContext == request_context # NoContext

\* the calls of the log made for preprocessed messages (not the summary call)
BranchCalls == {c \in 1..Len(backend_calls) : backend_calls[c].kind \in {"branch", "loop"}}
SummaryCalls == {c \in 1..Len(backend_calls) : backend_calls[c].kind = "summary"}

\* calls started and not yet returned, in a turn
InFlightCalls == InGate + (IF pc \in {"normal", "loop", "summary"} THEN 1 ELSE 0)

Last(seq) == seq[Len(seq)]
IsPrefix(a, b) == Len(a) <= Len(b) /\ SubSeq(b, 1, Len(a)) = a

\* C1: when every row succeeded, run_batch_chat returns one tuple per input
\* History, the i-th with index i, the Response of the backend call made for
\* row i (the empty Response for an empty row) and the History of that row;
\* run_simple_batch_chat returns one output per message, the i-th being the
\* output of the call that was sent message i.
C1_BatchKeepsInputOrder ==
    bpc = "returned" =>
        /\ Len(responses) = Len(chat_histories)
        /\ \A i \in 1..Len(responses) :
             /\ responses[i][1] = i - 1
             /\ IF chat_histories[i] = <<>>
                THEN /\ responses[i][2] = ChatResponse(<<>>, 0, 0, 0)
                     /\ responses[i][3] = <<>>
                ELSE LET c == responses[i][2].call IN
                       /\ c \in 1..Len(backend_calls)
                       /\ backend_calls[c].kind = "row"
                       /\ backend_calls[c].num = i - 1
                       /\ IsPrefix(chat_histories[i], backend_calls[c].messages)
                       /\ responses[i][3] =
                              Append(backend_calls[c].messages,
                                     AssistantMessage(responses[i][2].output))
        /\ entry = "run_simple_batch_chat" =>
             /\ Len(response_messages) = Len(messages)
             /\ \A i \in 1..Len(messages) :
                  LET c == responses[i][2].call IN
                    /\ response_messages[i] = responses[i][2].output
                    /\ backend_calls[c].num = i - 1
                    /\ backend_calls[c].messages[1].content[1].text
                           = Prompt \o <<NL>> \o messages[i]

\* a run with fewer gate slots than rows returned after a row finished before
\* an earlier one
C1_Witness ==
    /\ bpc = "returned"
    /\ out_of_order
    /\ concurrency < Len(chat_histories)
    /\ \A i \in 1..Len(responses) : responses[i][2].call # 0

\* C2: at every moment of a batch run at most concurrency rows are inside the
\* gate, and at every moment of a with-context turn at most concurrency_limit
\* backend calls are in flight.
C2_GateBound ==
    /\ RowsInGate <= concurrency
    /\ WithContext => InFlightCalls <= concurrency_limit

\* the gate of a with-context turn is full and a task waits for a slot
C2_Witness ==
    /\ WithContext
    /\ InGate = concurrency_limit
    /\ \E i \in 1..Len(task) : task[i] = "created"

\* the gate of a batch run is full and a row waits for a slot
C2_BatchGateFull ==
    /\ RowsInGate = concurrency
    /\ \E i \in 1..Len(row) : row[i] = "created"

\* C3: in a with-context turn whose preprocessing yields N messages, the
\* calls made for the messages total exactly N and the merge step receives
\* exactly N responses.
C3_OneCallPerMessage ==
    (WithContext /\ pc = "done") =>
        /\ Cardinality(BranchCalls) = N
        /\ Len(chat_responses) = N

\* C4: the responses handed to the merge step are in the order of the
\* preprocessed messages: position i holds the response of the concurrent
\* branch i, and every position holds a response to the message of its rank,
\* whatever order the branch calls completed in.
C4_ResponsesInMessageOrder ==
    (WithContext /\ pc \in {"loop", "summary", "done"}) =>
        /\ Len(chat_responses) >= N
        /\ \A p \in 1..Len(chat_responses) :
             LET c == chat_responses[p].call
                 i == ((p - 1) % N) + 1
             IN  /\ c \in BranchCalls
                 /\ backend_calls[c].num = i - 1
                 /\ Last(backend_calls[c].messages) = preprocessed_messages[i]
                 /\ p <= N => backend_calls[c].kind = "branch"

\* a turn of several branches finished after a branch completed before an
\* earlier one
C4_Witness ==
    /\ WithContext
    /\ pc = "done"
    /\ N >= 2
    /\ out_of_order

\* C5: a turn with a RequestContext of split_mode none and one input message
\* makes exactly one backend call and returns that call's Response.
C5_NoSplitIsVerbatim ==
    (/\ WithContext
     /\ request_context.split_mode = split_mode_name_none
     /\ Len(chat_message_list) = 1
     /\ pc = "done") =>
        /\ Len(backend_calls) = 1
        /\ result.response.call = 1
        /\ \A k \in 1..Len(result.response.output) :
               result.response.output[k] \in {"A", "B", NL}

\* C6: a turn without RequestContext and with n > 0 messages makes exactly
\* one backend call, returns that call's Response, and leaves the History
\* equal to the prior History, the n messages and one assistant message
\* carrying the output.
C6_NormalChat ==
    (~WithContext /\ Len(chat_message_list) > 0 /\ pc = "done") =>
        /\ Len(backend_calls) = 1
        /\ backend_calls[1].messages = prior_history \o chat_message_list
        /\ result.status = "returned"
        /\ \E out \in Outputs : result.response = BackendResponse(out, 1)
        /\ chat_history =
               Append(prior_history \o chat_message_list,
                      AssistantMessage(result.response.output))

\* a no-context turn with messages, on a History that was not empty, returned
C6_Witness ==
    /\ ~WithContext
    /\ Len(chat_message_list) > 0
    /\ prior_history # <<>>
    /\ pc = "done"

\* the merge the specification describes: the outputs of the N branches in
\* order, each after its label line, joined by newlines, trimmed
LabelledBranchOutputs ==
    Strip(Join([i \in 1..N |-> <<AnswerPartLabel(i), NL>> \o task_result[i][2].output], NL))

\* C7: when N >= 2 branches complete under a split_mode other than
\* split_and_summarize, the output is the N branch outputs in order, each
\* preceded by its [answer_part_i] line, joined by newlines and trimmed.
C7_LabelledMerge ==
    (/\ WithContext
     /\ request_context.split_mode # split_mode_name_split_and_summarize
     /\ N >= 2
     /\ pc = "done") =>
        result.response.output = LabelledBranchOutputs

\* C8: under split_and_summarize with N branches the turn makes exactly N + 1
\* backend calls, one of them the summary call, whose Response is the result.
C8_OneExtraCall ==
    (/\ WithContext
     /\ request_context.split_mode = split_mode_name_split_and_summarize
     /\ pc = "done") =>
        /\ Len(backend_calls) = N + 1
        /\ Cardinality(SummaryCalls) = 1
        /\ result.response.call \in SummaryCalls

\* C9: with a split_mode other than none and an empty prompt_template_text
\* the turn raises a ValueError and no backend call is ever made.
C9_MissingTemplate ==
    (/\ WithContext
     /\ request_context.split_mode # split_mode_name_none
     /\ request_context.prompt_template_text = <<>>) =>
        /\ pc \in {"idle", "raised"}
        /\ pc = "raised" => result = Raised("ValueError")
        /\ Len(backend_calls) = 0
        /\ Len(task) = 0

\* the turn was given a message and has raised for the missing template
C9_Witness ==
    /\ WithContext
    /\ request_context.split_mode # split_mode_name_none
    /\ request_context.prompt_template_text = <<>>
    /\ Len(chat_message_list) > 0
    /\ pc = "raised"

\* C10: with split_and_summarize, a template and an empty
\* summarize_prompt_text, the turn never returns, and when it raises the
\* ValueError no backend call has been made.
C10_MissingSummarizePrompt ==
    (/\ WithContext
     /\ request_context.split_mode = split_mode_name_split_and_summarize
     /\ request_context.prompt_template_text # <<>>
     /\ request_context.summarize_prompt_text = <<>>) =>
        /\ pc # "done"
        /\ result = Raised("ValueError") => Len(backend_calls) = 0

\* the turn's RequestContext asks for text splitting and the input has a text
\* block: lines 552-570 ran
TextWasSplit ==
    /\ pc = "gather"
    /\ request_context.split_mode # split_mode_name_none
    /\ request_context.prompt_template_text # <<>>
    /\ request_context.split_message_length > 0
    /\ \E k \in 1..Len(AllContents(resolved_messages)) :
           AllContents(resolved_messages)[k].type = "text"

\* the text of a window message once the template and its newline are removed
WindowText(message) ==
    SubSeq(message.content[1].text,
           Len(request_context.prompt_template_text) + 2,
           Len(message.content[1].text))

\* C11: with a split_mode other than none, a template and L > 0, splitting
\* text blocks whose newline-joined concatenation has length T yields
\* ceil(T / L) messages; every window has L characters except the last, which
\* has between 1 and L; the windows in order, template and newline removed,
\* concatenate to the joined text.
C11_TextWindows ==
    TextWasSplit =>
        LET text == combined_text(resolved_messages)
            L == request_context.split_message_length
            n == Len(text_messages)
            template == request_context.prompt_template_text
        IN  /\ n * L >= Len(text)
            /\ (n - 1) * L < Len(text)
            /\ \A k \in 1..n :
                 /\ SubSeq(text_messages[k].content[1].text, 1, Len(template) + 1)
                        = template \o <<NL>>
                 /\ k < n => Len(WindowText(text_messages[k])) = L
                 /\ k = n => Len(WindowText(text_messages[k])) \in 1..L
            /\ Flatten([k \in 1..n |-> WindowText(text_messages[k])]) = text

\* several text blocks were joined and split into windows, the last one short
C11_Witness ==
    /\ TextWasSplit
    /\ Len(text_type_contents(resolved_messages)) >= 2
    /\ Len(text_messages) >= 3
    /\ Len(WindowText(Last(text_messages))) < request_context.split_message_length

\* __preprocess_image_urls__ went past its two early returns (lines 588-594)
ImagesWereSplit ==
    /\ pc = "gather"
    /\ request_context.split_mode # split_mode_name_none
    /\ request_context.max_images_per_request > 0

ImagesOf(message) == SelectSeq(message.content, _is_image_content_)

\* ceil(K / M) for a message of K >= 1 images, 1 for a message without image
PartsOf(message, M) ==
    IF Len(ImagesOf(message)) = 0 THEN 1
    ELSE (Len(ImagesOf(message)) + M - 1) \div M

\* number of output messages that stand for the first j input messages
RECURSIVE PartsUpTo(_, _, _)
PartsUpTo(list, j, M) ==
    IF j = 0 THEN 0 ELSE PartsUpTo(list, j - 1, M) + PartsOf(list[j], M)

\* C12: with a split_mode other than none and M > 0, every message of K >= 1
\* images is replaced, at its place, by ceil(K / M) messages of 1 to M images
\* each, whose images in order are the K images of the message, none repeated
\* and none dropped.
C12_ImageBatches ==
    ImagesWereSplit =>
        LET M == request_context.max_images_per_request IN
          /\ Len(preprocessed_messages) = PartsUpTo(text_messages, Len(text_messages), M)
          /\ \A j \in 1..Len(text_messages) :
               Len(ImagesOf(text_messages[j])) >= 1 =>
                   LET first == PartsUpTo(text_messages, j - 1, M) + 1
                       last == PartsUpTo(text_messages, j, M)
                   IN  /\ (last - first + 1) * M >= Len(ImagesOf(text_messages[j]))
                       /\ (last - first + 1) * M < Len(ImagesOf(text_messages[j])) + M
                       /\ \A q \in first..last :
                            Len(ImagesOf(preprocessed_messages[q])) \in 1..M
                       /\ Flatten([q \in 1..(last - first + 1) |->
                                      ImagesOf(preprocessed_messages[first + q - 1])])
                              = ImagesOf(text_messages[j])

\* a message of K images, K above M and no multiple of it, was replaced by
\* several messages, the last of them with fewer than M images
C12_Witness ==
    /\ ImagesWereSplit
    /\ \E j \in 1..Len(text_messages) :
         LET K == Len(ImagesOf(text_messages[j])) IN
           /\ K > request_context.max_images_per_request
           /\ K % request_context.max_images_per_request # 0

\* a message that is not the first was replaced by several messages
C12_LaterMessageSplit ==
    /\ ImagesWereSplit
    /\ \E j \in 2..Len(text_messages) :
         Len(ImagesOf(text_messages[j])) > request_context.max_images_per_request

\* the non-text blocks of the input messages, in order
NonTextBlocks ==
    SelectSeq(AllContents(resolved_messages), LAMBDA content : content.type # "text")

\* C13: when text splitting produces windows, every window message is one
\* text block (template, newline, window text) followed by every non-text
\* block of all the input messages, unmodified and in their original order.
C13_WindowsCarryAllNonText ==
    TextWasSplit =>
        \A k \in 1..Len(text_messages) :
            /\ text_messages[k].content[1].type = "text"
            /\ SubSeq(text_messages[k].content[1].text, 1,
                      Len(request_context.prompt_template_text) + 1)
                   = request_context.prompt_template_text \o <<NL>>
            /\ Tail(text_messages[k].content) = NonTextBlocks

\* several windows, each carrying an image and a file block of the input
C13_Witness ==
    /\ TextWasSplit
    /\ Len(text_messages) >= 2
    /\ \E a, b \in 1..Len(NonTextBlocks) :
         /\ NonTextBlocks[a].type = "image_url"
         /\ NonTextBlocks[b].type = "file"

\* the rows whose backend call failed
BackendFailedRows ==
    {i \in 1..Len(row) :
        /\ row[i] = "failed"
        /\ \E c \in 1..Len(backend_calls) :
               backend_calls[c].kind = "row" /\ backend_calls[c].num = i - 1}

\* the rows that failed before any backend call (ValueError of line 411)
InvalidRows == {i \in 1..Len(row) : row[i] = "failed"} \ BackendFailedRows

\* C14: once the backend call of a branch has failed the turn never goes past
\* gather and never returns a result, and when it ends it has raised that
\* error; once the backend call of a row has failed the run never returns
\* anything, and when it ends it has raised that error (the error of the row
\* that failed first), whatever the other branches or rows did.
C14_OneFailureFailsAll ==
    /\ (\E i \in 1..Len(task) : task[i] = "failed") =>
           /\ pc \in {"gather", "raised"}
           /\ result.status # "returned"
           /\ pc = "raised" => result = Raised("BackendError")
    /\ BackendFailedRows # {} =>
           /\ bpc \in {"running", "raised"}
           /\ responses = <<>>
           /\ response_messages = <<>>
           /\ (bpc = "raised" /\ InvalidRows = {}) => batch_error = "BackendError"

\* a run has raised after one row's call failed and another row's call succeeded
C14_Witness ==
    /\ bpc = "raised"
    /\ BackendFailedRows # {}
    /\ \E i \in 1..Len(row) : row[i] = "done" /\ row_result[i][2].call # 0

\* a turn has raised after one branch failed and another succeeded
C14_TurnWitness ==
    /\ pc = "raised"
    /\ \E i \in 1..Len(task) : task[i] = "failed"
    /\ \E i \in 1..Len(task) : task[i] = "done"

\* the backend calls made for row i
RowCalls(i) ==
    {c \in 1..Len(backend_calls) :
        backend_calls[c].kind = "row" /\ backend_calls[c].num = i - 1}

\* C15: a row whose History has no message never fails and causes no backend
\* call; when it is finished its result is the empty Response (empty output,
\* zero token counts) and the same, empty, History.
C15_EmptyRow ==
    \A i \in 1..Len(row) :
        chat_histories[i] = <<>> =>
            /\ row[i] \in {"created", "done"}
            /\ RowCalls(i) = {}
            /\ row_history[i] = <<>>
            /\ row[i] = "done" =>
                   /\ row_result[i][2].output = <<>>
                   /\ row_result[i][2].input_tokens = 0
                   /\ row_result[i][2].output_tokens = 0
                   /\ row_result[i][3] = chat_histories[i]

\* a run with an empty row between two rows that were sent to the backend
\* has returned
C15_Witness ==
    /\ bpc = "returned"
    /\ \E i \in 2..(Len(row) - 1) :
         /\ chat_histories[i] = <<>>
         /\ RowCalls(i - 1) # {}
         /\ RowCalls(i + 1) # {}

\* the rows with an empty History
EmptyRows == {i \in 1..Len(chat_histories) : chat_histories[i] = <<>>}

\* C16 as stated: every row with a non-empty History that has run its turn
\* made exactly one backend call, and a run that returned made exactly N - E
\* calls for its N rows, E of them empty.
C16_OneCallPerNonEmptyRow ==
    /\ \A i \in 1..Len(row) :
         (chat_histories[i] # <<>> /\ row[i] # "created") =>
             Cardinality(RowCalls(i)) = 1
    /\ bpc = "returned" =>
           Len(backend_calls) = Len(chat_histories) - Cardinality(EmptyRows)

\* C16, amended: a row whose History holds a user message makes exactly one
\* backend call in its turn; a row whose non-empty History holds no user
\* message fails its turn (ValueError of line 411) without any call; and a
\* run that returned made exactly N - E calls for its N rows, E of them empty.
C16_OneCallPerRow ==
    /\ \A i \in 1..Len(row) :
         /\ (LastRolePos(chat_histories[i], user_role) # 0 /\ row[i] # "created") =>
                Cardinality(RowCalls(i)) = 1
         /\ (chat_histories[i] # <<>> /\ LastRolePos(chat_histories[i], user_role) = 0) =>
                /\ RowCalls(i) = {}
                /\ row[i] \in {"created", "failed"}
         /\ Cardinality(RowCalls(i)) <= 1
    /\ bpc = "returned" =>
           Len(backend_calls) = Len(chat_histories) - Cardinality(EmptyRows)

\* a run of several rows, some empty and some not, has returned
C16_Witness ==
    /\ bpc = "returned"
    /\ Len(chat_histories) >= 3
    /\ Cardinality(EmptyRows) \in 1..(Len(chat_histories) - 1)

\* the rows that are finished: answered, short-circuited as empty, or failed
\* in their backend call
FinishedRows == {i \in 1..Len(row) : row[i] = "done"} \cup BackendFailedRows

\* C17: the progress counter counts the finished rows, whether they
\* succeeded, failed or were short-circuited as empty: it never exceeds the
\* row count and equals N when a run of N rows returns.
C17_ProgressCountsFinishedRows ==
    /\ progress = Cardinality(FinishedRows)
    /\ progress <= Len(chat_histories)
    /\ bpc = "returned" => progress = Len(chat_histories)

\* the part of C17 the code keeps: the counter counts the rows that finished
\* without error
C17_ProgressCountsSucceededRows ==
    /\ progress = Cardinality({i \in 1..Len(row) : row[i] = "done"})
    /\ bpc = "returned" => progress = Len(chat_histories)

C19_HistoryOnlyAppended ==
    IsPrefix(prior_history, chat_history)

\* the part of C19 the code keeps: a turn that was given messages only
\* appends to the History, and no turn makes it shorter
C19_HistoryAppendedWhenGivenMessages ==
    /\ Len(prior_history) <= Len(chat_history)
    /\ Len(chat_message_list) > 0 => IsPrefix(prior_history, chat_history)
    /\ ~WithContext => IsPrefix(prior_history, chat_history)

\* the calls the concurrent branches made
FanOutCalls == {c \in 1..Len(backend_calls) : backend_calls[c].kind = "branch"}

CalledWithoutMessages == pc # "off" /\ Len(chat_message_list) = 0

\* C21: a turn called with an empty message list works on the most recent
\* user message of the History: without context it sends the History and that
\* message, with context it preprocesses that message; if the History holds
\* no user message the turn raises the ValueError without any backend call.
C21_FallbackOnLastUserMessage ==
    CalledWithoutMessages =>
        IF \E q \in 1..Len(prior_history) : prior_history[q].role = user_role
        THEN LET q == LastRolePos(prior_history, user_role) IN
               /\ \A r \in (q + 1)..Len(prior_history) : prior_history[r].role # user_role
               /\ resolved_messages = <<prior_history[q]>>
               /\ (~WithContext /\ pc # "idle") =>
                      /\ Len(backend_calls) = 1
                      /\ backend_calls[1].messages = Append(prior_history, prior_history[q])
               /\ (WithContext /\ pc # "idle"
                      /\ ~TextPreprocessRaises(request_context)) =>
                      /\ pc # "raised" \/ result # Raised("ValueError")
                             \/ PostprocessRaises(request_context)
                      /\ preprocessed_messages = Preprocess(<<prior_history[q]>>, request_context)
          ELSE /\ pc \in {"idle", "raised"}
               /\ pc = "raised" => result = Raised("ValueError")
               /\ Len(backend_calls) = 0

\* a with-context turn without messages, on a History whose most recent user
\* message is not its first one, has dispatched branches
C21_Witness ==
    /\ CalledWithoutMessages
    /\ WithContext
    /\ LastRolePos(prior_history, user_role) > 1
    /\ \E c \in 1..Len(backend_calls) : backend_calls[c].kind = "branch"

\* a turn without messages on a History without user message has raised
C21_NoMessages ==
    /\ CalledWithoutMessages
    /\ prior_history # <<>>
    /\ LastRolePos(prior_history, user_role) = 0
    /\ pc = "raised"

\* the spreadsheet run, and the rows of its table whose cells are both empty
FromExcel == entry = "run_batch_chat_from_excel"
EmptyCells(i) == table.rows[i].content = <<>> /\ table.rows[i].file_path = ""

\* C22: the output column the spreadsheet run writes has one value per row of
\* the input table, the i-th being the output of the backend call made for
\* row i; a row whose text and file path are both empty is given the empty
\* History, causes no backend call and has the empty output at its place.
C22_OneOutputPerRow ==
    (FromExcel /\ bpc # "idle") =>
        /\ \A i \in 1..Len(chat_histories) :
             EmptyCells(i) => (chat_histories[i] = <<>> /\ RowCalls(i) = {})
        /\ output_excel.written =>
             /\ Len(output_excel.output) = Len(table.rows)
             /\ \A i \in 1..Len(table.rows) :
                  IF EmptyCells(i)
                  THEN output_excel.output[i] = <<>>
                  ELSE /\ row_result[i][2].call \in RowCalls(i)
                       /\ output_excel.output[i] = row_result[i][2].output

\* the output of a table with a row of empty cells before a row that was
\* sent to the backend has been written
C22_Witness ==
    /\ FromExcel
    /\ output_excel.written
    /\ \E i \in 1..(Len(table.rows) - 1) : EmptyCells(i) /\ ~EmptyCells(i + 1)

\* C23: the spreadsheet run of a table with neither the message-text column
\* nor the file-path column raises ValueError before any row is read: no
\* History is built, no backend call is made, no output is written.
C23_NoInputColumnRejected ==
    (FromExcel /\ bpc # "idle" /\ ~table.content_column /\ ~table.file_path_column) =>
        /\ bpc = "raised"
        /\ batch_error = "ValueError"
        /\ chat_histories = <<>>
        /\ row = <<>>
        /\ backend_calls = <<>>
        /\ output_excel = NotWritten

\* the run of a table with rows and neither input column has been rejected
C23_Witness ==
    /\ FromExcel
    /\ bpc = "raised"
    /\ ~table.content_column /\ ~table.file_path_column
    /\ Len(table.rows) > 0

\* the run of a table with rows and only one of the input columns raises
\* KeyError at its first row (lines 117-118)
C23_OneColumnKeyError ==
    /\ FromExcel
    /\ bpc = "raised"
    /\ batch_error = "KeyError"
    /\ table.content_column # table.file_path_column

\* C24: a with-context turn whose preprocessing gave exactly one message
\* returns the Response of that message's branch call as it is (same output,
\* same token counts) and makes no backend call but that one, whatever the
\* split mode.
C24_SingleBranchReturnedUnchanged ==
    (WithContext /\ pc = "done" /\ Len(preprocessed_messages) = 1) =>
        /\ result = Returned(task_result[1][2])
        /\ Len(backend_calls) = 1

\* C25: a with-context turn that raised (ValueError of the configuration or
\* of the missing messages, or the error of a backend call) has left the
\* History as it was when the turn began.
C25_FailedTurnKeepsHistory ==
    (WithContext /\ pc = "raised") => chat_history = prior_history

\* C25 for the turns that were given messages
C25_FailedTurnWithMessagesKeepsHistory ==
    (WithContext /\ pc = "raised" /\ ~CalledWithoutMessages) =>
        chat_history = prior_history

\* a no-context turn whose backend call failed
NormalChatFailed ==
    /\ ~WithContext
    /\ pc = "raised"
    /\ result = Raised("BackendError")

\* C26 as stated: a no-context turn whose backend call failed has left the
\* History as it was when the turn began.
C26_FailedCallKeepsHistory ==
    NormalChatFailed => chat_history = prior_history

\* what the History is then: as it was when the turn began, followed by the
\* messages of the turn, which lines 415-416 append before the call
FailedCallLeavesMessages ==
    NormalChatFailed =>
        /\ Len(resolved_messages) > 0
        /\ chat_history = prior_history \o resolved_messages

\* C27: once run_batch_chat has raised the error of a row whose backend call
\* failed, no step of the run starts another backend call.
C27_NoCallAfterRaise ==
    [][(bpc = "raised" /\ BackendFailedRows # {}) => backend_calls' = backend_calls]_vars

\* the rows whose non-empty History holds no user message
NoUserRows ==
    {i \in 1..Len(chat_histories) :
        chat_histories[i] # <<>> /\ LastRolePos(chat_histories[i], user_role) = 0}

\* C28 as stated: with a backend whose every call returns and a gate of at
\* least one slot, run_batch_chat eventually returns.
C28_RunReturns == <>(bpc = "returned")

\* the run is over: every row has had its slot and has left the gate, the
\* rows that failed are those without user message, and the run has returned
\* when there is none and raised the ValueError of line 411 otherwise
RunEnded ==
    /\ bpc \in {"returned", "raised"}
    /\ \A i \in 1..Len(row) :
         /\ row[i] \in {"done", "failed"}
         /\ row[i] = "failed" <=> i \in NoUserRows
    /\ bpc = "returned" <=> NoUserRows = {}
    /\ bpc = "raised" => batch_error = "ValueError"

\* C28, amended: with a backend whose every call returns an answer and a gate
\* of at least one slot, the run eventually ends with no row waiting for a
\* slot and none left in the gate: every row got a slot and finished, and
\* the run returned when every non-empty History holds a user message and
\* raised the ValueError of line 411 otherwise.
C28_RunEnds == <>RunEnded

\* a run of more rows than the gate has slots, all sent to the backend, has
\* returned
C28_Witness ==
    /\ entry = "run_batch_chat"
    /\ bpc = "returned"
    /\ Len(row) > concurrency
    /\ \A i \in 1..Len(row) : RowCalls(i) # {}

\* C29: the backend call of a row with a non-empty History is sent exactly
\* the messages of that History, and the History the row returns is the
\* input History followed by one assistant message.
C29_RowSendsItsHistory ==
    \A i \in 1..Len(row) :
        chat_histories[i] # <<>> =>
            /\ \A c \in RowCalls(i) : backend_calls[c].messages = chat_histories[i]
            /\ row[i] = "done" =>
                   row_result[i][3] =
                       Append(chat_histories[i], AssistantMessage(row_result[i][2].output))

\* C30: whatever the split mode, split_message_length and
\* max_images_per_request, every image block and every file block of the
\* input messages is in at least one of the preprocessed messages, which are
\* the messages the branches send.
C30_NoNonTextBlockDropped ==
    (WithContext /\ pc = "gather") =>
        \A b \in 1..Len(NonTextBlocks) :
            \E m \in 1..Len(preprocessed_messages) :
                \E c \in 1..Len(preprocessed_messages[m].content) :
                    preprocessed_messages[m].content[c] = NonTextBlocks[b]

\* C31: a with-context turn that was given at least one message and has
\* returned has made at least one backend call for a preprocessed message.
C31_ReturnedTurnDispatchedABranch ==
    (WithContext /\ pc = "done" /\ Len(chat_message_list) > 0) => BranchCalls # {}

\* a with-context turn in split mode none, past its preprocessing
PreprocessedUnsplit ==
    /\ WithContext
    /\ pc = "gather"
    /\ request_context.split_mode = split_mode_name_none

\* C32: in split mode none the preprocessed messages are the input messages,
\* one for one and in their order, whatever split_message_length and
\* max_images_per_request are: each is the input message with one text block
\* of prompt_template_text put before its blocks when that text is not
\* empty, and the input message as it is when it is empty.
C32_NoneModeKeepsMessages ==
    PreprocessedUnsplit =>
        /\ Len(preprocessed_messages) = Len(resolved_messages)
        /\ \A k \in 1..Len(resolved_messages) :
             /\ preprocessed_messages[k].role = resolved_messages[k].role
             /\ preprocessed_messages[k].content =
                    IF request_context.prompt_template_text # <<>>
                    THEN <<create_text_content(request_context.prompt_template_text)>>
                         \o resolved_messages[k].content
                    ELSE resolved_messages[k].content

\* in split mode none, with a template and both limits set, a message whose
\* text is longer than split_message_length and which has more images than
\* max_images_per_request has been preprocessed
C32_Witness ==
    /\ PreprocessedUnsplit
    /\ request_context.prompt_template_text # <<>>
    /\ request_context.split_message_length > 0
    /\ request_context.max_images_per_request > 0
    /\ \E k \in 1..Len(resolved_messages) :
         /\ Len(ImagesOf(resolved_messages[k])) > request_context.max_images_per_request
         /\ Len(combined_text(resolved_messages)) > request_context.split_message_length

\* C33: the message objects the caller gave to a turn have, at every moment
\* of the turn and after it, the content blocks they had when it began.
C33_InputMessagesUntouched ==
    (pc # "off" /\ Len(chat_message_list) > 0) => chat_message_list = resolved_messages

\* C34: every backend call of the turn on the 2nd of two clients created
\* without a History is sent what that client's own turn put together, and
\* nothing of the turn on the 1st client: the no-context call is sent the
\* messages of the turn, a branch call one preprocessed message, the summary
\* call its one request message.
C34_ClientsHaveOwnHistories ==
    client = 2 =>
        \A c \in 1..Len(backend_calls) :
            LET call == backend_calls[c] IN
              /\ call.kind = "normal" => call.messages = resolved_messages
              /\ call.kind \in {"branch", "loop"} =>
                     call.messages = <<preprocessed_messages[call.num + 1]>>
              /\ call.kind = "summary" => Len(call.messages) = 1

\* the image blocks of the input messages, in order
InputImages == SelectSeq(AllContents(resolved_messages), _is_image_content_)

\* ceil(a / b)
CeilDiv(a, b) == (a + b - 1) \div b

\* text splitting and image batching both ran, on a text that is not empty
SplitBothWays ==
    /\ TextWasSplit
    /\ request_context.max_images_per_request > 0
    /\ Len(combined_text(resolved_messages)) > 0

\* C35: with a split mode other than none, a template, L > 0, M > 0, a joined
\* text of T > 0 characters and K images in all, preprocessing gives exactly
\* ceil(T / L) * max(1, ceil(K / M)) messages, one branch each: for every
\* window w and every image group g, message (w - 1) * G + g holds the text
\* of window w and the images of group g.
C35_WindowsTimesImageGroups ==
    SplitBothWays =>
        LET text == combined_text(resolved_messages)
            L == request_context.split_message_length
            M == request_context.max_images_per_request
            K == Len(InputImages)
            W == CeilDiv(Len(text), L)
            G == IF K = 0 THEN 1 ELSE CeilDiv(K, M)
        IN  /\ Len(preprocessed_messages) = W * G
            /\ \A w \in 1..W : \A g \in 1..G :
                 LET message == preprocessed_messages[(w - 1) * G + g] IN
                   /\ WindowText(message) =
                          SubSeq(text, (w - 1) * L + 1, Min(w * L, Len(text)))
                   /\ K > 0 => ImagesOf(message) =
                          SubSeq(InputImages, (g - 1) * M + 1, Min(g * M, K))
                   /\ K = 0 => ImagesOf(message) = <<>>

\* several windows and several image groups
C35_Witness ==
    /\ SplitBothWays
    /\ Len(combined_text(resolved_messages)) > request_context.split_message_length
    /\ Len(InputImages) > request_context.max_images_per_request
    /\ Len(preprocessed_messages) >= 4

\* the text blocks of a message, in order
TextBlocksOf(message) == SelectSeq(message.content, _is_text_content_)

\* C36: when image batching runs, a message without image block is passed on
\* as it is, and every message made for a message with images has the role
\* of that message and, as content, all its text blocks in their order
\* followed by one group of its images.
C36_BatchesKeepTextAndRole ==
    ImagesWereSplit =>
        LET M == request_context.max_images_per_request IN
          \A j \in 1..Len(text_messages) :
            LET source == text_messages[j]
                first == PartsUpTo(text_messages, j - 1, M) + 1
                last == PartsUpTo(text_messages, j, M)
            IN  IF Len(ImagesOf(source)) = 0
                THEN first = last /\ preprocessed_messages[first] = source
                ELSE \A q \in first..last :
                       /\ preprocessed_messages[q].role = source.role
                       /\ preprocessed_messages[q].content =
                              TextBlocksOf(source)
                              \o SubSeq(ImagesOf(source), (q - first) * M + 1,
                                        Min((q - first + 1) * M, Len(ImagesOf(source))))

\* a message of several text blocks and several image groups was batched,
\* after a message without image that was passed on
C36_Witness ==
    /\ ImagesWereSplit
    /\ \E j \in 1..Len(text_messages) :
         /\ Len(TextBlocksOf(text_messages[j])) >= 1
         /\ Len(ImagesOf(text_messages[j])) > request_context.max_images_per_request
    /\ \E j \in 1..Len(text_messages) :
         /\ Len(ImagesOf(text_messages[j])) = 0
         /\ Len(text_messages[j].content) >= 1

\* C37: the text of the user message the summary call is sent is
\* summarize_prompt_text and a newline, followed by the output of every
\* branch, once each and in the order of the branches, a newline after each.
C37_SummaryRequestText ==
    \A c \in SummaryCalls :
        LET message == Last(backend_calls[c].messages) IN
          /\ message.role = user_role
          /\ Len(message.content) = 1
          /\ message.content[1].text =
                 request_context.summarize_prompt_text \o <<NL>>
                 \o Flatten([i \in 1..Len(task_result) |->
                                task_result[i][2].output \o <<NL>>])

\* the predicates of the client that recognize a block
RecognizedBy(provider, content) ==
    {p \in {"text", "image", "file"} :
        \/ p = "text" /\ ClientIsText(provider, content)
        \/ p = "image" /\ ClientIsImage(provider, content)
        \/ p = "file" /\ ClientIsFile(provider, content)}

\* C38: whatever the client class, a block made by the text builder is
\* recognized by is_text only, a block made by the image builder by is_image
\* only, and a block made by the file builder by is_file only.
C38_OnePredicatePerBlock ==
    \A k \in 1..Len(contents) :
        RecognizedBy(llm_provider, contents[k].block) = {contents[k].builder}

\* C38 for the text and image builders of every client class, and for the
\* file builder of every class but AnthropicClient
BlocksRecognizedButAnthropicFiles ==
    \A k \in 1..Len(contents) :
        (llm_provider # "anthropic" \/ contents[k].builder # "file") =>
            RecognizedBy(llm_provider, contents[k].block) = {contents[k].builder}

\* C39: a spreadsheet run whose table has only one of the two input columns
\* is accepted: it is not ended by an exception before its rows are
\* processed. Only a table with neither column is rejected.
C39_OneColumnTableAccepted ==
    (FromExcel /\ bpc = "raised" /\ row = <<>>) =>
        (~table.content_column /\ ~table.file_path_column)
====
